---- MODULE Spec2Model ----
(***************************************************************************)
(* badgrclient: the resource models of badgrmodels.py (Base, Assertion,    *)
(* BadgeClass, Issuer) driven through one entity object, over an API       *)
(* client whose token handling and badge-name cache are described by the   *)
(* specification (the client module is not part of the sources).           *)
(*                                                                         *)
(* Python values: a string-typed slot holds a string or None; an           *)
(* object-typed slot (a dict, a list, a return value) holds a record or    *)
(* NoneValue, a list argument being [list |-> <<...>>].  A url path is the *)
(* tuple of its segments.                                                  *)
(***************************************************************************)
EXTENDS Integers, Sequences, FiniteSets, TLC

VARIABLES
    kind,         \* the class of the entity object
    entityId,     \* self.entityId
    data,         \* self.data
    calls,        \* the requests the most recent operation handed to the transport
    last,         \* the most recent operation: its name, arguments and outcome
    now,          \* the clock
    token,        \* the client's stored token: access token and expiry time
    badge_names   \* the client's name cache: issuer id -> (badge name -> entity id)

vars == <<kind, entityId, data, calls, last, now, token, badge_names>>

-----------------------------------------------------------------------------
(* Bounds and input sets *)

MaxTime == 2

None == "None"
NoneValue == [none |-> TRUE]
TrueValue == [bool |-> TRUE]
SelfValue == [self |-> TRUE]
EmptyList == [list |-> <<>>]

Kinds == {"Issuer", "BadgeClass", "Assertion"}

EntityDicts ==
    { [entityId |-> "e1", name |-> "n1"],
      [entityId |-> "e2", name |-> "n2"],
      [entityId |-> "", name |-> "n1"],
      [name |-> "n1"] }

\* what the transport can answer to a request for one entity
\* (an error, an empty result list, an entity with an id, one without, a null)
TransportOutcomes ==
    { [status |-> "error"],
      [status |-> "ok", result |-> <<>>],
      [status |-> "ok", result |-> <<[entityId |-> "e1", name |-> "n1"]>>],
      [status |-> "ok", result |-> <<[name |-> "n1"]>>],
      [status |-> "ok", result |-> <<NoneValue>>] }

\* what the transport can answer to the listing of an issuer's badge classes
ListOutcomes ==
    { [status |-> "error"],
      [status |-> "ok", result |-> <<[entityId |-> "e1", name |-> "n1"]>>] }

ExpiresIn == {1, 2}

\* what the token endpoint can answer
AuthOutcomes ==
    { [ok |-> FALSE] } \cup { [ok |-> TRUE, expires_in |-> e] : e \in ExpiresIn }

\* the token endpoint answers only when it is asked: while the stored token is
\* valid no answer is drawn
TokenAnswers == IF now >= token.expires_at THEN AuthOutcomes ELSE { [ok |-> FALSE] }

Names == {"n1"}
IssuerIds == {"i1"}
BadgeIds == {"e1", "e2"}
Emails == {"a@x.org"}
CriteriaTexts == {None, "", "text"}
CriteriaUrls == {None, "url"}
TagLists == {[list |-> <<"irc">>]}
StaffActions == {"add", "remove", "ban"}
StaffRoles == {"staff", "guest"}
Reasons == {"spam"}

-----------------------------------------------------------------------------
(* Python helpers *)

Truthy(s) == s # None /\ s # ""
TruthyObj(v) == v # NoneValue /\ v # EmptyList

EidRequiredError == "Exception: entityId is required for this operation"
CriteriaError == "Exception: At least one of criteria_text and criteria_url is required"
ActionError == "Exception: Action must be one of 'add', 'modify' or 'remove'"
RoleError == "Exception: Action must be one of 'owner', 'editor', or 'staff'"

\* the running operation: the entity's fields, the client's token, the requests
\* sent so far, the exception raised (None: none), the value returned and the
\* last response received
Begin ==
    [entityId |-> entityId, data |-> data, token |-> token, calls |-> <<>>,
     exc |-> None, ret |-> NoneValue, response |-> NoneValue]

Raise(st, e) == IF st.exc # None THEN st ELSE [st EXCEPT !.exc = e]
Return(st, v) == IF st.exc # None THEN st ELSE [st EXCEPT !.ret = v]

-----------------------------------------------------------------------------
(* The API client: token refresh and the authenticated call (specification *)
(* sections 4.1 and 4.2)                                                   *)

TOKEN_PATH == <<"o", "token">>

TokenRequest ==
    [method |-> "POST", path |-> TOKEN_PATH, data |-> [grant_type |-> "refresh_token"]]

\* get_valid_token refreshing only strictly after the expiry
get_valid_token_late(st, auth) ==
    IF st.exc # None \/ ~(now > st.token.expires_at) THEN st
    ELSE LET s1 == [st EXCEPT !.calls = Append(@, TokenRequest)]
         IN IF auth.ok
            THEN [s1 EXCEPT !.token = [access_token |-> now,
                                       expires_at |-> now + auth.expires_in]]
            ELSE Raise(s1, "AuthError")

\* get_valid_token: at or after the stored expiry, one token request replaces the
\* stored token; a failed request raises AuthError and is not retried
get_valid_token(st, auth) ==
    IF st.exc # None \/ ~(now >= st.token.expires_at) THEN st
    ELSE LET s1 == [st EXCEPT !.calls = Append(@, TokenRequest)]
         IN IF auth.ok
            THEN [s1 EXCEPT !.token = [access_token |-> now,
                                       expires_at |-> now + auth.expires_in]]
            ELSE Raise(s1, "AuthError")

\* _call_api(path, method, data): ensures a valid token, sends the request with
\* the bearer token, returns the parsed body or raises ApiError
call_api(st, path, method, body, auth, tr) ==
    LET s1 == get_valid_token(st, auth)
        req == [method |-> method, path |-> path, data |-> body,
                bearer |-> s1.token.access_token]
        s2 == [s1 EXCEPT !.calls = Append(@, req)]
    IN IF s1.exc # None THEN s1
       ELSE IF tr.status = "error" THEN Raise(s2, "ApiError")
       ELSE [s2 EXCEPT !.response = [result |-> tr.result]]

\* the requests of a log that went to the resource API (not the token endpoint)
ApiCalls(log) == SelectSeq(log, LAMBDA r : r.path # TOKEN_PATH)
TokenCalls(log) == SelectSeq(log, LAMBDA r : r.path = TOKEN_PATH)

-----------------------------------------------------------------------------
(* Base *)

ENDPOINT(k) ==
    CASE k = "Assertion" -> <<"v2", "assertions">>
      [] k = "BadgeClass" -> <<"v2", "badgeclasses">>
      [] k = "Issuer" -> <<"v2", "issuers">>

V1_ENDPOINT(slug) == <<"v1", "issuer", "issuers", slug, "staff">>

\* set_data without the assignment of entityId
set_data_keeps_id(st, d) ==
    IF st.exc # None THEN st
    ELSE LET s1 == [st EXCEPT !.data = d]
         IN IF d = NoneValue THEN Raise(s1, "TypeError") ELSE s1

\* set_data clearing entityId when the data holds no 'entityId' key
set_data_resets_id(st, d) ==
    IF st.exc # None THEN st
    ELSE LET s1 == [st EXCEPT !.data = d]
         IN IF d = NoneValue THEN Raise(s1, "TypeError")
            ELSE IF "entityId" \in DOMAIN d
                 THEN [s1 EXCEPT !.entityId = d.entityId]
                 ELSE [s1 EXCEPT !.entityId = None]

\* Base.set_data: data is assigned first, then the membership test, which raises
\* TypeError on a value that is no container
set_data(st, d) ==
    IF st.exc # None THEN st
    ELSE LET s1 == [st EXCEPT !.data = d]
         IN IF d = NoneValue THEN Raise(s1, "TypeError")
            ELSE IF "entityId" \in DOMAIN d
                 THEN [s1 EXCEPT !.entityId = d.entityId]
                 ELSE s1

get_entity_ep(st) == Append(ENDPOINT(kind), st.entityId)

\* response['result'][0] followed by set_data
set_first_result(st) ==
    IF st.exc # None THEN st
    ELSE IF st.response.result = <<>> THEN Raise(st, "IndexError")
    ELSE set_data(st, st.response.result[1])

\* calling a name: a function runs, None raises TypeError before anything runs
Invoke(st, method) ==
    IF st.exc # None THEN st
    ELSE IF method.callable THEN method.run
    ELSE Raise(st, "TypeError")

\* the wrapper eid_required builds around func
check_id(st, func) ==
    [callable |-> TRUE,
     run |-> IF Truthy(st.entityId) THEN func ELSE Raise(st, EidRequiredError)]

\* the decorator: it builds check_id and has no return statement, so the
\* decorated name is bound to None
eid_required(st, func) ==
    LET wrapper == check_id(st, func)
    IN  [callable |-> FALSE]

Base_delete(st, auth, tr) ==
    LET response == call_api(st, get_entity_ep(st), "DELETE", NoneValue, auth, tr)
        func == Return(response, response.response)
    IN Invoke(st, eid_required(st, func))

Base_fetch(st, auth, tr) ==
    LET func == set_first_result(call_api(st, get_entity_ep(st), "GET", NoneValue, auth, tr))
    IN Invoke(st, eid_required(st, func))

\* update: the PUT of the local data, then self.fetch(...), then the PUT response
Base_update(st, auth, tr) ==
    LET put == call_api(st, get_entity_ep(st), "PUT", st.data, auth, tr)
        func == Return(Base_fetch(put, auth, tr), put.response)
    IN Invoke(st, eid_required(st, func))

-----------------------------------------------------------------------------
(* Assertion *)

\* Assertion.create sending its POST a second time after the first answer
Assertion_create_twice(st, badgeclass, recipient_email, evidence, auth, tr) ==
    LET payload == [badgeclass |-> badgeclass,
                    recipient |-> [type |-> "email", identity |-> recipient_email],
                    evidence |-> evidence]
        first == call_api(st, ENDPOINT("Assertion"), "POST", payload, auth, tr)
        response == IF first.exc # None THEN first
                    ELSE call_api(first, ENDPOINT("Assertion"), "POST", payload, auth, tr)
    IN Return(set_first_result(response), TrueValue)

Assertion_create(st, badgeclass, recipient_email, evidence, auth, tr) ==
    LET payload == [badgeclass |-> badgeclass,
                    recipient |-> [type |-> "email", identity |-> recipient_email],
                    evidence |-> evidence]
        response == call_api(st, ENDPOINT("Assertion"), "POST", payload, auth, tr)
    IN Return(set_first_result(response), TrueValue)

\* revoke: the DELETE of the entity endpoint; reason is not used
Assertion_revoke(st, reason, auth, tr) ==
    LET ep == Append(ENDPOINT("Assertion"), st.entityId)
        response == call_api(st, ep, "DELETE", NoneValue, auth, tr)
        func == Return(response, response.response)
    IN Invoke(st, eid_required(st, func))

-----------------------------------------------------------------------------
(* BadgeClass *)

BadgeClass_fetch_assertions(st, auth, tr) ==
    LET ep == ENDPOINT("BadgeClass") \o <<st.entityId, "assertions">>
        response == call_api(st, ep, "GET", NoneValue, auth, tr)
        func == Return(response, response.response)
    IN Invoke(st, eid_required(st, func))

\* BadgeClass.create demanding both criteria_text and criteria_url
BadgeClass_create_both(st, name, image, description, issuer_eid, criteria_text, criteria_url, alignment, tags, expires, auth, tr) ==
    IF ~(Truthy(criteria_text) /\ Truthy(criteria_url))
    THEN Raise(st, CriteriaError)
    ELSE LET payload == [name |-> name,
                         image |-> image,
                         issuer |-> issuer_eid,
                         description |-> description,
                         criteria_text |-> criteria_text,
                         criteria_url |-> criteria_url,
                         alignments |-> IF TruthyObj(alignment) THEN alignment ELSE EmptyList,
                         tags |-> IF TruthyObj(tags) THEN tags ELSE EmptyList,
                         expires |-> expires]
             response == call_api(st, ENDPOINT("BadgeClass"), "POST", payload, auth, tr)
         IN Return(set_first_result(response), TrueValue)

BadgeClass_create(st, name, image, description, issuer_eid, criteria_text, criteria_url, alignment, tags, expires, auth, tr) ==
    IF ~(Truthy(criteria_text) \/ Truthy(criteria_url))
    THEN Raise(st, CriteriaError)
    ELSE LET payload == [name |-> name,
                         image |-> image,
                         issuer |-> issuer_eid,
                         description |-> description,
                         criteria_text |-> criteria_text,
                         criteria_url |-> criteria_url,
                         alignments |-> IF TruthyObj(alignment) THEN alignment ELSE EmptyList,
                         tags |-> IF TruthyObj(tags) THEN tags ELSE EmptyList,
                         expires |-> expires]
             response == call_api(st, ENDPOINT("BadgeClass"), "POST", payload, auth, tr)
         IN Return(set_first_result(response), TrueValue)

-----------------------------------------------------------------------------
(* Issuer *)

\* Issuer.create storing the payload as the entity's data before the request
Issuer_create_eager(st, name, description, email, url, auth, tr) ==
    LET payload == [name |-> name, description |-> description,
                    email |-> email, url |-> url]
        response == call_api([st EXCEPT !.data = payload], ENDPOINT("Issuer"), "POST",
                             payload, auth, tr)
    IN Return(set_first_result(response), TrueValue)

Issuer_create(st, name, description, email, url, auth, tr) ==
    LET payload == [name |-> name, description |-> description,
                    email |-> email, url |-> url]
        response == call_api(st, ENDPOINT("Issuer"), "POST", payload, auth, tr)
    IN Return(set_first_result(response), TrueValue)

Issuer_fetch_assertions(st, auth, tr) ==
    LET ep == ENDPOINT("Issuer") \o <<st.entityId, "assertions">>
        response == call_api(st, ep, "GET", NoneValue, auth, tr)
        func == Return(response, response.response)
    IN Invoke(st, eid_required(st, func))

Issuer_fetch_badgeclasses(st, auth, tr) ==
    LET ep == ENDPOINT("Issuer") \o <<st.entityId, "badgeclasses">>
        response == call_api(st, ep, "GET", NoneValue, auth, tr)
        func == Return(response, response.response)
    IN Invoke(st, eid_required(st, func))

\* create_badgeclass: BadgeClass(self.client).create(...) on a new object, with
\* this issuer's entityId as the issuer; the issuer's own fields are not assigned
Issuer_create_badgeclass(st, name, image, description, criteria_text, criteria_url, alignment, tags, expires, auth, tr) ==
    LET fresh == [st EXCEPT !.entityId = None, !.data = NoneValue]
        made == BadgeClass_create(fresh, name, image, description, st.entityId,
                                  criteria_text, criteria_url, alignment, tags,
                                  expires, auth, tr)
        func == [made EXCEPT !.entityId = st.entityId, !.data = st.data]
    IN Invoke(st, eid_required(st, func))

\* edit_staff: both checks, the POST to the v1 staff endpoint, self.fetch(...),
\* then the POST response
Issuer_edit_staff(st, action, email, role, auth, tr) ==
    LET payload == [action |-> action, email |-> email, role |-> role]
        post == call_api(st, V1_ENDPOINT(st.entityId), "POST", payload, auth, tr)
        func == IF action \notin {"add", "modify", "remove"} THEN Raise(st, ActionError)
                ELSE IF role \notin {"owner", "editor", "staff"} THEN Raise(st, RoleError)
                ELSE Return(Base_fetch(post, auth, tr), post.response)
    IN Invoke(st, eid_required(st, func))

-----------------------------------------------------------------------------
(* The client's name cache (specification section 4.2) *)

\* the cache entry built from a listing: each badge name mapped to its entity id
NameMap(list) ==
    LET badges == {list[i] : i \in DOMAIN list}
    IN [n \in {b.name : b \in badges} |-> (CHOOSE b \in badges : b.name = n).entityId]

\* load_badge_names: one listing of the issuer's badge classes; its result
\* overwrites the issuer's cache entry
load_badge_names(st, issuer_eid, auth, tr) ==
    call_api(st, ENDPOINT("Issuer") \o <<issuer_eid, "badgeclasses">>, "GET",
             NoneValue, auth, tr)

-----------------------------------------------------------------------------
(* The state machine: one entity object, one client *)

NoOp == [op |-> "__init__", args |-> NoneValue, exc |-> None, ret |-> NoneValue,
         response |-> NoneValue]

Init ==
    /\ kind \in Kinds
    /\ entityId = None
    /\ data = NoneValue
    /\ calls = <<>>
    /\ last = NoOp
    /\ now = 0
    /\ token \in {[access_token |-> 0, expires_at |-> e] : e \in ExpiresIn}
    /\ badge_names = [i \in IssuerIds |-> NoneValue]

\* the outcome of an operation on the entity becomes the state
Apply(op, args, out) ==
    /\ entityId' = out.entityId
    /\ data' = out.data
    /\ token' = out.token
    /\ calls' = out.calls
    /\ last' = [op |-> op, args |-> args, exc |-> out.exc,
                ret |-> IF out.exc = None THEN out.ret ELSE NoneValue,
                response |-> out.response]
    /\ UNCHANGED <<kind, now, badge_names>>

\* Base.__init__: a new object of class k
New(k) ==
    /\ kind' = k
    /\ entityId' = None
    /\ data' = NoneValue
    /\ calls' = <<>>
    /\ last' = NoOp
    /\ UNCHANGED <<now, token, badge_names>>

Tick ==
    /\ now < MaxTime
    /\ now' = now + 1
    /\ UNCHANGED <<kind, entityId, data, calls, last, token, badge_names>>

SetData ==
    /\ kind \in Kinds
    /\ \E d \in EntityDicts \cup {NoneValue} :
        Apply("set_data", [data |-> d], Return(set_data(Begin, d), SelfValue))

Delete ==
    /\ kind \in Kinds
    /\ \E auth \in TokenAnswers, tr \in TransportOutcomes :
        Apply("delete", NoneValue, Base_delete(Begin, auth, tr))

Update ==
    /\ kind \in Kinds
    /\ \E auth \in TokenAnswers, tr \in TransportOutcomes :
        Apply("update", NoneValue, Base_update(Begin, auth, tr))

Fetch ==
    /\ kind \in Kinds
    /\ \E auth \in TokenAnswers, tr \in TransportOutcomes :
        Apply("fetch", NoneValue, Base_fetch(Begin, auth, tr))

AssertionCreate ==
    /\ kind = "Assertion"
    /\ \E badgeclass \in BadgeIds, recipient_email \in Emails,
          auth \in TokenAnswers, tr \in TransportOutcomes :
          Apply("create",
                [badgeclass |-> badgeclass, recipient_email |-> recipient_email,
                 evidence |-> NoneValue],
                Assertion_create(Begin, badgeclass, recipient_email, NoneValue, auth, tr))

AssertionRevoke ==
    /\ kind = "Assertion"
    /\ \E reason \in Reasons, auth \in TokenAnswers, tr \in TransportOutcomes :
          Apply("revoke", [reason |-> reason], Assertion_revoke(Begin, reason, auth, tr))

BadgeClassFetchAssertions ==
    /\ kind = "BadgeClass"
    /\ \E auth \in TokenAnswers, tr \in TransportOutcomes :
          Apply("fetch_assertions", NoneValue, BadgeClass_fetch_assertions(Begin, auth, tr))

BadgeClassCreate ==
    /\ kind = "BadgeClass"
    /\ \E name \in Names, issuer_eid \in IssuerIds, criteria_text \in CriteriaTexts,
          criteria_url \in CriteriaUrls, tags \in TagLists,
          auth \in TokenAnswers, tr \in TransportOutcomes :
          Apply("create",
                [name |-> name, issuer_eid |-> issuer_eid,
                 criteria_text |-> criteria_text, criteria_url |-> criteria_url,
                 tags |-> tags],
                BadgeClass_create(Begin, name, "image", "description", issuer_eid,
                                  criteria_text, criteria_url, NoneValue, tags,
                                  NoneValue, auth, tr))

IssuerCreate ==
    /\ kind = "Issuer"
    /\ \E name \in Names, email \in Emails,
          auth \in TokenAnswers, tr \in TransportOutcomes :
          Apply("create", [name |-> name, email |-> email],
                Issuer_create(Begin, name, "description", email, "url", auth, tr))

IssuerFetchAssertions ==
    /\ kind = "Issuer"
    /\ \E auth \in TokenAnswers, tr \in TransportOutcomes :
          Apply("fetch_assertions", NoneValue, Issuer_fetch_assertions(Begin, auth, tr))

IssuerFetchBadgeclasses ==
    /\ kind = "Issuer"
    /\ \E auth \in TokenAnswers, tr \in TransportOutcomes :
          Apply("fetch_badgeclasses", NoneValue, Issuer_fetch_badgeclasses(Begin, auth, tr))

IssuerCreateBadgeclass ==
    /\ kind = "Issuer"
    /\ \E name \in Names, criteria_text \in CriteriaTexts, criteria_url \in {None},
          auth \in TokenAnswers, tr \in TransportOutcomes :
          Apply("create_badgeclass",
                [name |-> name, criteria_text |-> criteria_text,
                 criteria_url |-> criteria_url],
                Issuer_create_badgeclass(Begin, name, "image", "description",
                                         criteria_text, criteria_url, NoneValue,
                                         NoneValue, NoneValue, auth, tr))

IssuerEditStaff ==
    /\ kind = "Issuer"
    /\ \E action \in StaffActions, email \in Emails, role \in StaffRoles,
          auth \in TokenAnswers, tr \in TransportOutcomes :
          Apply("edit_staff", [action |-> action, email |-> email, role |-> role],
                Issuer_edit_staff(Begin, action, email, role, auth, tr))

LoadBadgeNames ==
    /\ kind \in Kinds
    /\ \E issuer_eid \in IssuerIds, auth \in TokenAnswers, tr \in ListOutcomes :
        LET out == load_badge_names(Begin, issuer_eid, auth, tr)
        IN /\ badge_names' = IF out.exc = None
                             THEN [badge_names EXCEPT ![issuer_eid] = NameMap(out.response.result)]
                             ELSE badge_names
           /\ token' = out.token
           /\ calls' = out.calls
           /\ last' = [op |-> "load_badge_names", args |-> [issuer_eid |-> issuer_eid],
                       exc |-> out.exc, ret |-> NoneValue, response |-> out.response]
           /\ UNCHANGED <<kind, entityId, data, now>>

Next ==
    \/ \E k \in Kinds : New(k)
    \/ Tick
    \/ SetData
    \/ Delete
    \/ Update
    \/ Fetch
    \/ AssertionCreate
    \/ AssertionRevoke
    \/ BadgeClassFetchAssertions
    \/ BadgeClassCreate
    \/ IssuerCreate
    \/ IssuerFetchAssertions
    \/ IssuerFetchBadgeclasses
    \/ IssuerCreateBadgeclass
    \/ IssuerEditStaff
    \/ LoadBadgeNames

Spec == Init /\ [][Next]_vars

TypeOK ==
    /\ kind \in Kinds
    /\ entityId \in {None, "", "e1", "e2"}
    /\ data \in EntityDicts \cup {NoneValue}
    /\ now \in 0..MaxTime
    /\ Len(calls) <= 2

-----------------------------------------------------------------------------
(* Properties *)

\* the exceptions the API call itself raises
NetworkErrors == {"ApiError", "AuthError"}

\* C1: on an entity whose entityId is unset (None or empty), fetch, update and
\* delete raise the 'entityId is required' error, issue no request and leave
\* data and entityId unchanged.
C1_EidRequiredRaised ==
    [][ (now' = now /\ last'.op \in {"fetch", "update", "delete"} /\ ~Truthy(entityId))
        => /\ last'.exc = EidRequiredError
           /\ calls' = <<>>
           /\ data' = data
           /\ entityId' = entityId ]_vars

\* C2: BadgeClass.create with neither criteria_text nor criteria_url (None or
\* empty) raises the criteria error before any request, with data and entityId
\* unchanged; with at least one of the two supplied the criteria error is not raised.
C2_CriteriaRequired ==
    [][ (now' = now /\ kind = "BadgeClass" /\ last'.op = "create")
        => IF ~(Truthy(last'.args.criteria_text) \/ Truthy(last'.args.criteria_url))
           THEN /\ last'.exc = CriteriaError
                /\ calls' = <<>>
                /\ data' = data
                /\ entityId' = entityId
           ELSE last'.exc # CriteriaError ]_vars

\* a BadgeClass that already holds data was asked to create without criteria
C2_Witness ==
    /\ kind = "BadgeClass"
    /\ last.op = "create"
    /\ last.exc = CriteriaError
    /\ data # NoneValue
    /\ Truthy(entityId)

\* C3: with the name cache loaded for the issuer and holding the badge name,
\* BadgeClass.create with that name, that issuer and a criteria_text raises the
\* duplicate-name error and sends no request.
C3_DuplicateNameRejected ==
    ( /\ kind = "BadgeClass"
      /\ last.op = "create"
      /\ Truthy(last.args.criteria_text)
      /\ badge_names[last.args.issuer_eid] # NoneValue
      /\ last.args.name \in DOMAIN badge_names[last.args.issuer_eid] )
    => (last.exc = "BadgrClientError" /\ calls = <<>>)

\* C4: Assertion.create sends exactly one API request, a POST to
\* /v2/badgeclasses/<badge class id>/assertions, whose body holds the recipient
\* {type: email, identity: recipient_email} and not the badge class id.
C4_AssertionPostsUnderBadgeClass ==
    (kind = "Assertion" /\ last.op = "create" /\ last.exc # "AuthError")
    => LET api == ApiCalls(calls)
       IN /\ Len(api) = 1
          /\ api[1].method = "POST"
          /\ api[1].path = <<"v2", "badgeclasses", last.args.badgeclass, "assertions">>
          /\ api[1].data.recipient = [type |-> "email", identity |-> last.args.recipient_email]
          /\ "badgeclass" \notin DOMAIN api[1].data

\* C5: a create that fails on its precondition or because the API call raises
\* leaves data and entityId as they were; an update that fails leaves data and
\* entityId as they were and sends no GET.
C5_NoPartialState ==
    [][ /\ (now' = now /\ last'.op = "create"
            /\ last'.exc \in NetworkErrors \cup {CriteriaError})
           => (data' = data /\ entityId' = entityId)
        /\ (now' = now /\ last'.op = "update" /\ last'.exc # None)
           => /\ data' = data
              /\ entityId' = entityId
              /\ \A i \in DOMAIN calls' : calls'[i].method # "GET" ]_vars

\* a create whose POST was sent and raised, on an entity that holds data and an id
C5_Witness ==
    /\ last.op = "create"
    /\ last.exc = "ApiError"
    /\ ApiCalls(calls) # <<>>
    /\ data # NoneValue
    /\ Truthy(entityId)

\* C6: on an entity with an entityId, update sends exactly two API requests, a
\* PUT of the local data to the entity endpoint and then a GET of the same
\* endpoint whose first result becomes the local data, and does not raise
\* (the transport answering both).
C6_UpdatePutsThenGets ==
    [][ (now' = now /\ last'.op = "update" /\ Truthy(entityId)
         /\ last'.exc \notin NetworkErrors \cup {"IndexError"})
        => LET api == ApiCalls(calls')
           IN /\ Len(api) = 2
              /\ api[1].method = "PUT"
              /\ api[1].path = Append(ENDPOINT(kind), entityId)
              /\ api[1].data = data
              /\ api[2].method = "GET"
              /\ api[2].path = Append(ENDPOINT(kind), entityId)
              /\ last'.exc = None ]_vars

\* C7: Assertion.revoke(reason) on an assertion with an id sends a request
\* that carries the reason (so it differs from the request of delete).
C7_RevokeCarriesReason ==
    [][ (now' = now /\ kind = "Assertion" /\ last'.op = "revoke" /\ Truthy(entityId)
         /\ last'.exc # "AuthError")
        => \E i \in DOMAIN calls' :
              /\ calls'[i].path # TOKEN_PATH
              /\ calls'[i].data # NoneValue
              /\ \E f \in DOMAIN calls'[i].data : calls'[i].data[f] = last'.args.reason ]_vars

\* C8: Issuer.edit_staff on an issuer with an id: with an action outside
\* {add, modify, remove} or a role outside {owner, editor, staff} it raises and
\* sends nothing; otherwise it POSTs {action, email, role} to
\* /v1/issuer/issuers/<entityId>/staff, then GETs the issuer, without raising
\* (the transport answering both).
C8_EditStaff ==
    [][ (now' = now /\ kind = "Issuer" /\ last'.op = "edit_staff" /\ Truthy(entityId))
        => IF \/ last'.args.action \notin {"add", "modify", "remove"}
              \/ last'.args.role \notin {"owner", "editor", "staff"}
           THEN last'.exc # None /\ calls' = <<>>
           ELSE last'.exc \notin NetworkErrors \cup {"IndexError"}
                => LET api == ApiCalls(calls')
                   IN /\ Len(api) = 2
                      /\ api[1].method = "POST"
                      /\ api[1].path = V1_ENDPOINT(entityId)
                      /\ api[1].data = last'.args
                      /\ api[2].method = "GET"
                      /\ last'.exc = None ]_vars

\* C9: an authenticated call made at or after the stored token's expiry sends
\* exactly one token request, first, and every request after it carries the new
\* token, which is not expired; a call made before the expiry sends no token
\* request and carries the stored token.
C9_TokenRefresh ==
    [][ (now' = now /\ calls' # <<>>)
        => IF now >= token.expires_at
           THEN /\ Len(TokenCalls(calls')) = 1
                /\ calls'[1].path = TOKEN_PATH
                /\ \A i \in 2..Len(calls') :
                      /\ calls'[i].bearer = token'.access_token
                      /\ calls'[i].bearer # token.access_token
                      /\ now < token'.expires_at
           ELSE /\ TokenCalls(calls') = <<>>
                /\ token' = token
                /\ \A i \in DOMAIN calls' : calls'[i].bearer = token.access_token ]_vars

\* a call that refreshed the token and then sent its request with the new token
C9_Witness ==
    /\ Len(calls) = 2
    /\ calls[1].path = TOKEN_PATH
    /\ calls[2].path # TOKEN_PATH
    /\ calls[2].bearer = token.access_token
    /\ token.access_token > 0

C12_EntityIdFollowsData ==
    /\ [](data # NoneValue /\ "entityId" \in DOMAIN data => entityId = data.entityId)
    /\ [][ LET loaded == IF last'.op = "set_data" THEN last'.args.data
                         ELSE last'.response.result[1]
           IN (now' = now /\ last'.op \in {"set_data", "create", "fetch"}
               /\ last'.exc = None /\ "entityId" \notin DOMAIN loaded)
              => (data' = loaded /\ entityId' = entityId) ]_vars

\* data without an 'entityId' key was loaded over an entity that had an id
C12_Witness ==
    /\ last.op \in {"set_data", "create"}
    /\ last.exc = None
    /\ data # NoneValue
    /\ "entityId" \notin DOMAIN data
    /\ Truthy(entityId)

====
